---- MODULE Spec2Model ----
(***************************************************************************)
(* Model of run_scheduled_tasks.py: one run of main(), which loads the     *)
(* configuration, issues one authenticated HTTP POST and maps the outcome  *)
(* to the process exit code.                                               *)
(*                                                                         *)
(* A Python string is modelled as a sequence of tokens.  A token is either *)
(* one of the characters the code looks at (space, newline, '=', '#', '/', *)
(* the two quote characters) or a word: a non-empty run of other           *)
(* characters.  The empty string is <<>>.                                  *)
(***************************************************************************)
EXTENDS Integers, Sequences, FiniteSets, TLC

VARIABLES
    environ,        \* os.environ: a function from the names that are set to their values
    env_file,       \* the .env file next to the script: [exists, readable, lines]
    pc,             \* position of the run in main()
    env_vars,       \* what load_env_variables returned: [none, vars]
    getenv_names,   \* the names os.getenv has been called with
    file_opened,    \* whether open(env_file) has been called
    endpoint_url,   \* the URL handed to requests.post
    posts,          \* number of calls of requests.post
    response,       \* outcome of requests.post: [kind, status, body]
    caught,         \* the except clause that handled a fault, "none" if none did
    warned,         \* whether the "Some tasks had errors" warning was logged
    success,        \* the value trigger_scheduled_tasks returned
    exit_code,      \* main's exit_code, -1 while unassigned
    termination     \* "running", "exit" (sys.exit was called) or "uncaught"

vars == <<environ, env_file, pc, env_vars, getenv_names, file_opened, endpoint_url,
          posts, response, caught, warned, success, exit_code, termination>>

\* ------------------------------------------------------------------ bounds

\* Longest FLASK_APP_URL environment value, in tokens.
MaxUrlLen == 2
\* Most lines in the .env file.
MaxLines == 3

\* ------------------------------------------------------------ strings

\* A one-word string.
Str(w) == <<w>>

Whitespace == {" ", "\n"}
QuoteChars == {"\"", "'"}

RECURSIVE LStrip(_, _)
LStrip(s, chars) ==
    IF s # <<>> /\ Head(s) \in chars THEN LStrip(Tail(s), chars) ELSE s

RECURSIVE RStrip(_, _)
RStrip(s, chars) ==
    IF s # <<>> /\ s[Len(s)] \in chars
    THEN RStrip(SubSeq(s, 1, Len(s) - 1), chars)
    ELSE s

\* str.strip(chars): every leading and every trailing character in chars goes.
Strip(s, chars) == RStrip(LStrip(s, chars), chars)

\* Index of the first occurrence of c in s (c occurs in s).
Find(s, c) == CHOOSE i \in 1..Len(s) : s[i] = c /\ \A j \in 1..(i - 1) : s[j] # c

Contains(s, c) == \E i \in 1..Len(s) : s[i] = c

\* ------------------------------------------------------------ dicts

EmptyDict == [k \in {} |-> <<>>]

Put(d, k, v) == [x \in (DOMAIN d) \cup {k} |-> IF x = k THEN v ELSE d[x]]

\* bool(d.get(k)): the key is present and its value is a non-empty string.
Truthy(d, k) == k \in DOMAIN d /\ d[k] # <<>>

\* ------------------------------------------------ load_env_variables

required_vars ==
    << Str("FLASK_APP_URL"), Str("ADMIN_USERNAME"), Str("ADMIN_PASSWORD"),
       Str("TELEGRAM_BOT_TOKEN"), Str("DB_HOST"), Str("DB_PORT"), Str("DB_NAME"),
       Str("DB_USER"), Str("DB_PASSWORD") >>

\* The least number of variables the GitHub Actions branch accepts.
MinEnvVars == 3

github_actions(e) ==
    Str("GITHUB_ACTIONS") \in DOMAIN e /\ e[Str("GITHUB_ACTIONS")] = Str("true")

\* The loop over required_vars: a variable is kept when os.getenv gives a
\* non-empty value.
EnvFromSystem(e) ==
    [k \in {required_vars[i] : i \in {j \in 1..Len(required_vars) :
                                         Truthy(e, required_vars[j])}} |-> e[k]]

\* One line of the .env file, applied to the dict built so far.
ParseLine(d, raw) ==
    LET line == Strip(raw, Whitespace)
    IN  IF line # <<>> /\ Head(line) # "#" /\ Contains(line, "=")
        THEN LET i     == Find(line, "=")
                 key   == Strip(SubSeq(line, 1, i - 1), Whitespace)
                 value == Strip(Strip(SubSeq(line, i + 1, Len(line)), Whitespace),
                                QuoteChars)
             IN  Put(d, key, value)
        ELSE d

RECURSIVE ParseLines(_, _)
ParseLines(d, lines) ==
    IF lines = <<>> THEN d ELSE ParseLines(ParseLine(d, Head(lines)), Tail(lines))

None == [none |-> TRUE, vars |-> EmptyDict]
Dict(d) == [none |-> FALSE, vars |-> d]

\* load_env_variables falling back to the process environment when there is
\* no .env file.
load_env_variables_EnvFallback(e, f) ==
    IF github_actions(e) \/ ~f.exists
    THEN [result |-> IF Cardinality(DOMAIN EnvFromSystem(e)) >= MinEnvVars
                     THEN Dict(EnvFromSystem(e))
                     ELSE None,
          getenv |-> {Str("GITHUB_ACTIONS")} \cup {required_vars[i] : i \in 1..Len(required_vars)},
          opened |-> FALSE]
    ELSE [result |-> IF ~f.readable THEN None ELSE Dict(ParseLines(EmptyDict, f.lines)),
          getenv |-> {Str("GITHUB_ACTIONS")},
          opened |-> TRUE]

\* load_env_variables reading the .env file when the environment of a GitHub
\* Actions run holds too few variables.
load_env_variables_FileFallback(e, f) ==
    IF github_actions(e) /\ Cardinality(DOMAIN EnvFromSystem(e)) >= MinEnvVars
    THEN [result |-> Dict(EnvFromSystem(e)),
          getenv |-> {Str("GITHUB_ACTIONS")} \cup {required_vars[i] : i \in 1..Len(required_vars)},
          opened |-> FALSE]
    ELSE [result |-> IF ~f.exists THEN None
                     ELSE IF ~f.readable THEN None
                     ELSE Dict(ParseLines(EmptyDict, f.lines)),
          getenv |-> IF github_actions(e)
                     THEN {Str("GITHUB_ACTIONS")} \cup {required_vars[i] : i \in 1..Len(required_vars)}
                     ELSE {Str("GITHUB_ACTIONS")},
          opened |-> f.exists]

\* The result of load_env_variables together with what it touched:
\* [result, getenv, opened].
load_env_variables(e, f) ==
    IF github_actions(e)
    THEN [result |-> IF Cardinality(DOMAIN EnvFromSystem(e)) >= MinEnvVars
                     THEN Dict(EnvFromSystem(e))
                     ELSE None,
          getenv |-> {Str("GITHUB_ACTIONS")} \cup {required_vars[i] : i \in 1..Len(required_vars)},
          opened |-> FALSE]
    ELSE [result |-> IF ~f.exists THEN None
                     ELSE IF ~f.readable THEN None
                     ELSE Dict(ParseLines(EmptyDict, f.lines)),
          getenv |-> {Str("GITHUB_ACTIONS")},
          opened |-> f.exists]

\* ------------------------------------------------ trigger_scheduled_tasks

\* not env_vars: None and the empty dict are both falsy.
Falsy(r) == r.none \/ DOMAIN r.vars = {}

\* The check of the required values looking at the URL alone.
AllRequired_UrlOnly(d) == Truthy(d, Str("FLASK_APP_URL"))

\* all([flask_app_url, admin_username, admin_password])
AllRequired(d) ==
    /\ Truthy(d, Str("FLASK_APP_URL"))
    /\ Truthy(d, Str("ADMIN_USERNAME"))
    /\ Truthy(d, Str("ADMIN_PASSWORD"))

\* The URL built with one trailing slash removed instead of all.
EndpointUrl_OneSlash(flask_app_url) ==
    (IF flask_app_url # <<>> /\ flask_app_url[Len(flask_app_url)] = "/"
     THEN SubSeq(flask_app_url, 1, Len(flask_app_url) - 1)
     ELSE flask_app_url) \o <<"/", "run_scheduled_tasks">>

\* f"{flask_app_url.rstrip('/')}/run_scheduled_tasks"
EndpointUrl(flask_app_url) ==
    RStrip(flask_app_url, {"/"}) \o <<"/", "run_scheduled_tasks">>

StatusCodes == {200, 201, 401, 404, 500}

\* Response bodies: a JSON object without "errors", with an empty and with a
\* non-empty "errors" list; JSON that is no object; text that is no JSON.
Bodies == {"object", "object_errors_empty", "object_errors", "non_object", "invalid"}

IsObject(b) == b \in {"object", "object_errors_empty", "object_errors"}

NoResponse == [kind |-> "none", status |-> 0, body |-> "none"]

\* What requests.post can do: return a response or raise.
PostOutcomes ==
    {[kind |-> "response", status |-> s, body |-> b] : s \in StatusCodes, b \in Bodies}
    \cup {[kind |-> k, status |-> 0, body |-> "none"] :
            k \in {"Timeout", "ConnectionError", "RequestException", "Exception"}}

\* ------------------------------------------------------------ Init

EssentialVars == {required_vars[i] : i \in 1..3}
OptionalVars == {required_vars[i] : i \in 4..Len(required_vars)}

RECURSIVE SeqsUpTo(_, _)
SeqsUpTo(S, n) ==
    IF n = 0 THEN {<<>>}
    ELSE SeqsUpTo(S, n - 1) \cup {Append(s, x) : s \in SeqsUpTo(S, n - 1), x \in S}

\* Values of FLASK_APP_URL in the environment: a host word and slashes.
UrlValues == SeqsUpTo({"h", "/"}, MaxUrlLen)

\* A choice for one variable: <<>> leaves it unset, <<v>> sets it to v.
Unset == <<>>
Choices(values) == {Unset} \cup {<<v>> : v \in values}

MakeEnviron(ga, url, user, pass, optional) ==
    LET chosen == [k \in {Str("GITHUB_ACTIONS")} \cup EssentialVars \cup OptionalVars |->
                     IF k = Str("GITHUB_ACTIONS") THEN ga
                     ELSE IF k = Str("FLASK_APP_URL") THEN url
                     ELSE IF k = Str("ADMIN_USERNAME") THEN user
                     ELSE IF k = Str("ADMIN_PASSWORD") THEN pass
                     ELSE IF k \in optional THEN <<Str("x")>> ELSE Unset]
    IN  [k \in {n \in DOMAIN chosen : chosen[n] # Unset} |-> chosen[k][1]]

\* Environments of a GitHub Actions run.
ActionsEnvirons ==
    {MakeEnviron(<<Str("true")>>, url, user, pass, optional) :
        url \in Choices(UrlValues),
        user \in Choices({<<>>, Str("env_admin")}),
        pass \in Choices({<<>>, Str("env_secret")}),
        optional \in SUBSET OptionalVars}

\* Environments of a local run: GITHUB_ACTIONS unset or different from 'true',
\* the credentials all unset or all set.
LocalEnvirons ==
    {MakeEnviron(ga, c[1], c[2], c[3], {}) :
        ga \in Choices({Str("True"), Str("false")}),
        c \in {<<Unset, Unset, Unset>>,
               << <<Str("env_host")>>, <<Str("env_admin")>>, <<Str("env_secret")>> >>}}

\* Sample lines of a .env file.
SampleLines ==
    { <<"FLASK_APP_URL", "=", "h", "/", "/">>,
      <<"ADMIN_USERNAME", " ", "=", " ", "\"", "admin", "\"", "\n">>,
      <<"ADMIN_PASSWORD", "=", "'", "secret", "=", "1", "'">>,
      <<"FLASK_APP_URL", "=", "\"", "\"">>,
      <<"#", "ADMIN_PASSWORD", "=", "old">>,
      <<"ADMIN_USERNAME">>,
      <<"\n">> }

NoFile == [exists |-> FALSE, readable |-> FALSE, lines |-> <<>>]
FileOf(lines) == [exists |-> TRUE, readable |-> TRUE, lines |-> lines]

\* The .env files of a local run.
LocalFiles ==
    {NoFile, [exists |-> TRUE, readable |-> FALSE, lines |-> <<>>]}
    \cup {FileOf(l) : l \in SeqsUpTo(SampleLines, MaxLines)}

\* The .env files beside a GitHub Actions run, which never reads them.
ActionsFiles ==
    {NoFile,
     FileOf(<< <<"FLASK_APP_URL", "=", "h">>, <<"ADMIN_USERNAME", "=", "admin">>,
               <<"ADMIN_PASSWORD", "=", "secret">> >>)}

Init ==
    /\ \/ environ \in ActionsEnvirons /\ env_file \in ActionsFiles
       \/ environ \in LocalEnvirons /\ env_file \in LocalFiles
    /\ pc = "banner"
    /\ env_vars = None
    /\ getenv_names = {}
    /\ file_opened = FALSE
    /\ endpoint_url = <<>>
    /\ posts = 0
    /\ response = NoResponse
    /\ caught = "none"
    /\ warned = FALSE
    /\ success = FALSE
    /\ exit_code = -1
    /\ termination = "running"

\* ------------------------------------------------------------ actions

\* main: the start banner.
StartBanner ==
    /\ pc = "banner"
    /\ pc' = "load"
    /\ UNCHANGED <<environ, env_file, env_vars, getenv_names, file_opened, endpoint_url,
                   posts, response, caught, warned, success, exit_code, termination>>

\* trigger_scheduled_tasks: env_vars = load_env_variables(); if not env_vars: return False
LoadConfig ==
    /\ pc = "load"
    /\ LET r == load_env_variables(environ, env_file)
       IN  /\ env_vars' = r.result
           /\ getenv_names' = getenv_names \cup r.getenv
           /\ file_opened' = (file_opened \/ r.opened)
           /\ IF Falsy(r.result)
              THEN success' = FALSE /\ pc' = "result"
              ELSE success' = success /\ pc' = "check"
    /\ UNCHANGED <<environ, env_file, endpoint_url, posts, response, caught, warned,
                   exit_code, termination>>

\* trigger_scheduled_tasks: the three required values; if not all(...): return False
CheckRequired ==
    /\ pc = "check"
    /\ IF AllRequired(env_vars.vars)
       THEN success' = success /\ pc' = "post"
       ELSE success' = FALSE /\ pc' = "result"
    /\ UNCHANGED <<environ, env_file, env_vars, getenv_names, file_opened, endpoint_url,
                   posts, response, caught, warned, exit_code, termination>>

\* trigger_scheduled_tasks: build the URL and call requests.post; a raised
\* exception is handled by the matching except clause, which returns False.
PostRequest ==
    /\ pc = "post"
    /\ endpoint_url' = EndpointUrl(env_vars.vars[Str("FLASK_APP_URL")])
    /\ posts' = posts + 1
    /\ \E o \in PostOutcomes :
          /\ response' = o
          /\ IF o.kind = "response"
             THEN caught' = caught /\ success' = success /\ pc' = "response"
             ELSE caught' = o.kind /\ success' = FALSE /\ pc' = "result"
    /\ UNCHANGED <<environ, env_file, env_vars, getenv_names, file_opened, warned,
                   exit_code, termination>>

\* The branch on the status code taking every 2xx status for success.
HandleResponse_Any2xx ==
    /\ pc = "response"
    /\ IF response.status >= 200 /\ response.status < 300
       THEN IF IsObject(response.body)
            THEN /\ warned' = (response.body = "object_errors")
                 /\ success' = TRUE
                 /\ caught' = caught
            ELSE /\ warned' = warned
                 /\ success' = FALSE
                 /\ IF response.body = "invalid"
                    THEN caught' \in {"RequestException", "Exception"}
                    ELSE caught' = "Exception"
       ELSE warned' = warned /\ success' = FALSE /\ caught' = caught
    /\ pc' = "result"
    /\ UNCHANGED <<environ, env_file, env_vars, getenv_names, file_opened, endpoint_url,
                   posts, response, exit_code, termination>>

\* The branch on the status code returning False when the body reports errors.
HandleResponse_ErrorsFail ==
    /\ pc = "response"
    /\ IF response.status = 200
       THEN IF IsObject(response.body)
            THEN /\ warned' = (response.body = "object_errors")
                 /\ success' = (response.body # "object_errors")
                 /\ caught' = caught
            ELSE /\ warned' = warned
                 /\ success' = FALSE
                 /\ IF response.body = "invalid"
                    THEN caught' \in {"RequestException", "Exception"}
                    ELSE caught' = "Exception"
       ELSE warned' = warned /\ success' = FALSE /\ caught' = caught
    /\ pc' = "result"
    /\ UNCHANGED <<environ, env_file, env_vars, getenv_names, file_opened, endpoint_url,
                   posts, response, exit_code, termination>>

\* The branch on the status code posting once more after a status other than 200.
HandleResponse_Retry ==
    /\ pc = "response"
    /\ IF response.status = 200
       THEN IF IsObject(response.body)
            THEN /\ warned' = (response.body = "object_errors")
                 /\ success' = TRUE
                 /\ caught' = caught
            ELSE /\ warned' = warned
                 /\ success' = FALSE
                 /\ IF response.body = "invalid"
                    THEN caught' \in {"RequestException", "Exception"}
                    ELSE caught' = "Exception"
       ELSE warned' = warned /\ success' = FALSE /\ caught' = caught
    /\ pc' = IF response.status # 200 /\ posts < 2 THEN "post" ELSE "result"
    /\ UNCHANGED <<environ, env_file, env_vars, getenv_names, file_opened, endpoint_url,
                   posts, response, exit_code, termination>>

\* The branch on the status code returning True on status 200 without reading
\* the body.
HandleResponse_NoParse ==
    /\ pc = "response"
    /\ success' = (response.status = 200)
    /\ pc' = "result"
    /\ UNCHANGED <<environ, env_file, env_vars, getenv_names, file_opened, endpoint_url,
                   posts, response, caught, warned, exit_code, termination>>

\* trigger_scheduled_tasks: the branch on response.status_code.  With status
\* 200, response.json() raises on a body that is no JSON and result.get raises
\* on JSON that is no object; both are caught and give False.
HandleResponse ==
    /\ pc = "response"
    /\ IF response.status = 200
       THEN IF IsObject(response.body)
            THEN /\ warned' = (response.body = "object_errors")
                 /\ success' = TRUE
                 /\ caught' = caught
            ELSE /\ warned' = warned
                 /\ success' = FALSE
                 /\ IF response.body = "invalid"
                    THEN caught' \in {"RequestException", "Exception"}
                    ELSE caught' = "Exception"
       ELSE warned' = warned /\ success' = FALSE /\ caught' = caught
    /\ pc' = "result"
    /\ UNCHANGED <<environ, env_file, env_vars, getenv_names, file_opened, endpoint_url,
                   posts, response, exit_code, termination>>

\* main: exit_code from the value trigger_scheduled_tasks returned.
MainResult ==
    /\ pc = "result"
    /\ exit_code' = IF success THEN 0 ELSE 1
    /\ pc' = "finish"
    /\ UNCHANGED <<environ, env_file, env_vars, getenv_names, file_opened, endpoint_url,
                   posts, response, caught, warned, success, termination>>

\* main: the completion banner and sys.exit(exit_code).
FinishAndExit ==
    /\ pc = "finish"
    /\ termination' = "exit"
    /\ pc' = "done"
    /\ UNCHANGED <<environ, env_file, env_vars, getenv_names, file_opened, endpoint_url,
                   posts, response, caught, warned, success, exit_code>>

Next ==
    \/ StartBanner
    \/ LoadConfig
    \/ CheckRequired
    \/ PostRequest
    \/ HandleResponse
    \/ MainResult
    \/ FinishAndExit

\* A run in which no signal arrives and nothing raises but requests.post and
\* the reading of the response body.
Spec == Init /\ [][Next]_vars

\* ------------------------------------------------- faults and interruption

\* The statements inside the try block of trigger_scheduled_tasks.
InTrigger == {"load", "check", "post", "response"}

\* A KeyboardInterrupt (the interruption signal) or an Exception raised while
\* the run is at pc.  In trigger_scheduled_tasks an Exception is caught by its
\* last except clause; KeyboardInterrupt is no Exception and reaches main's
\* except clauses, which also guard main's own try block.  The two banners
\* stand outside every try block.
Fault ==
    /\ pc \in {"banner", "finish"} \cup InTrigger \cup {"result"}
    /\ \E kind \in {"KeyboardInterrupt", "Exception"}, issued \in BOOLEAN :
          /\ posts' = IF pc = "post" /\ issued THEN posts + 1 ELSE posts
          /\ pc # "post" => ~issued
          /\ IF pc \in {"banner", "finish"}
             THEN /\ termination' = "uncaught"
                  /\ pc' = "done"
                  /\ caught' = caught
                  /\ UNCHANGED <<success, exit_code>>
             ELSE IF pc \in InTrigger /\ kind = "Exception"
             THEN /\ success' = FALSE
                  /\ caught' = "Exception"
                  /\ pc' = "result"
                  /\ UNCHANGED <<exit_code, termination>>
             ELSE /\ exit_code' = 1
                  /\ caught' = "main." \o kind
                  /\ pc' = "finish"
                  /\ UNCHANGED <<success, termination>>
    /\ UNCHANGED <<environ, env_file, env_vars, getenv_names, file_opened, endpoint_url,
                   response, warned>>

NextInterrupt ==
    \/ Next
    \/ Fault

\* A run in which a KeyboardInterrupt or an Exception may be raised at any step.
SpecInterrupt == Init /\ [][NextInterrupt]_vars

\* ------------------------------------------------------------ properties

CIMode == Str("GITHUB_ACTIONS") \in DOMAIN environ /\ environ[Str("GITHUB_ACTIONS")] = <<"true">>

\* The names among S that the environment sets to a non-empty value.
SetIn(S) == {k \in S : k \in DOMAIN environ /\ environ[k] # <<>>}

AllListedVars == EssentialVars \cup OptionalVars

\* Some essential key is absent from d or has the empty value.
Missing(d) == \E k \in EssentialVars : k \notin DOMAIN d \/ d[k] = <<>>

Tokens(s) == {s[i] : i \in 1..Len(s)}

AfterLoad == pc \notin {"banner", "load"}
AfterCheck == pc \notin {"banner", "load", "check"}
AfterTrigger == pc \in {"result", "finish", "done"}

GotResponse == response.kind = "response"
RaisedByPost == response.kind \in {"Timeout", "ConnectionError", "RequestException", "Exception"}

PathSegment == <<"/", "run_scheduled_tasks">>

\* C1: a finished run has exit code 0 only if the POST was issued and answered
\* with status 200; a run whose configuration failed to load or lacks a
\* required key, whose response had another status, whose POST raised, or in
\* which an exception was caught, ends through sys.exit with exit code 1.
C1_ExitCodeClassifiesOutcome ==
    /\ exit_code = 0 => posts = 1 /\ GotResponse /\ response.status = 200
    /\ pc = "done" =>
          /\ termination = "exit"
          /\ exit_code \in {0, 1}
          /\ ( \/ env_vars.none
               \/ Missing(env_vars.vars)
               \/ RaisedByPost
               \/ GotResponse /\ response.status # 200
               \/ caught # "none" ) => exit_code = 1

C1_Witness ==
    pc = "done" /\ GotResponse /\ response.status = 401 /\ exit_code = 1

\* C2: with the three required values present, a response with status 200
\* whose body is a JSON object gives success and exit code 0, whether "errors"
\* is absent, empty or non-empty; only a non-empty list logs the warning.
C2_ObjectBodySucceeds ==
    (AfterTrigger /\ GotResponse /\ response.status = 200
        /\ response.body \in {"object", "object_errors_empty", "object_errors"}) =>
          /\ ~Missing(env_vars.vars)
          /\ success
          /\ warned <=> response.body = "object_errors"
          /\ pc \in {"finish", "done"} => exit_code = 0

C2_Witness ==
    pc = "done" /\ response.body = "object_errors" /\ response.status = 200
        /\ warned /\ exit_code = 0

\* C3: in CI mode with fewer than three essential variables set,
\* load_env_variables returns None, whatever the optional variables are, and
\* the run exits with code 1 without a POST.
C3_FewerThanThreeEssentialsFailsLoad ==
    (CIMode /\ Cardinality(SetIn(EssentialVars)) < 3 /\ AfterLoad) =>
          /\ env_vars.none
          /\ posts = 0
          /\ pc = "done" => exit_code = 1

\* C4: outside CI mode with no .env file, load_env_variables returns None and
\* the run exits with code 1 without a POST, whatever the environment holds.
C4_NoEnvFileFails ==
    (~CIMode /\ ~env_file.exists /\ AfterLoad) =>
          /\ env_vars.none
          /\ posts = 0
          /\ pc # "post"
          /\ pc = "done" => exit_code = 1 /\ termination = "exit"

C4_Witness ==
    /\ ~CIMode /\ ~env_file.exists /\ pc = "done"
    /\ SetIn(EssentialVars) = EssentialVars

\* C5 as stated: the target URL is the base URL less exactly one trailing
\* slash, if it has one, followed by '/run_scheduled_tasks'.
C5_TrimsExactlyOneSlash ==
    posts >= 1 =>
        LET u == env_vars.vars[Str("FLASK_APP_URL")]
        IN  endpoint_url =
              (IF u[Len(u)] = "/" THEN SubSeq(u, 1, Len(u) - 1) ELSE u) \o PathSegment

\* C5 amended: the target URL is the base URL less all of its trailing slashes,
\* followed by '/run_scheduled_tasks'.
C5_TrimsEveryTrailingSlash ==
    posts >= 1 =>
        LET u == env_vars.vars[Str("FLASK_APP_URL")]
        IN  \E k \in 0..Len(u) :
              /\ \A i \in (Len(u) - k + 1)..Len(u) : u[i] = "/"
              /\ k < Len(u) => u[Len(u) - k] # "/"
              /\ endpoint_url = SubSeq(u, 1, Len(u) - k) \o PathSegment

C5_Witness ==
    /\ posts = 1
    /\ LET u == env_vars.vars[Str("FLASK_APP_URL")]
       IN  Len(u) >= 2 /\ u[Len(u)] = "/" /\ u[Len(u) - 1] = "/"

\* C6: a run never ends with an uncaught fault: it ends through sys.exit with
\* exit code 0 or 1, and with 1 when a fault or interruption reached main.
C6_NoFaultEscapes ==
    pc = "done" =>
          /\ termination = "exit"
          /\ exit_code \in {0, 1}
          /\ caught \in {"main.KeyboardInterrupt", "main.Exception"} => exit_code = 1

\* C7: a run issues at most one POST, exactly one once the configuration has
\* loaded with the three required values, and none otherwise; no outcome of
\* the POST leads to a second one.
C7_OnePostNoRetry ==
    /\ posts <= 1
    /\ (pc \in {"response", "result", "finish", "done"}
           /\ ~env_vars.none /\ ~Missing(env_vars.vars)) => posts = 1
    /\ posts = 1 => ~env_vars.none /\ ~Missing(env_vars.vars)
    /\ (GotResponse \/ RaisedByPost) => posts = 1

C7_Witness ==
    pc = "done" /\ posts = 1 /\ response.kind = "Timeout" /\ exit_code = 1

\* C8: when the loaded configuration lacks one of the three required values,
\* no POST is issued and the run exits with code 1; so also in CI mode when the
\* load succeeded on three or more listed variables.
C8_MissingRequiredFails ==
    (AfterCheck /\ Missing(env_vars.vars)) =>
          /\ posts = 0
          /\ pc \in {"result", "finish", "done"}
          /\ ~success
          /\ pc \in {"finish", "done"} => exit_code = 1
          /\ pc = "done" => termination = "exit"

C8_Witness ==
    /\ CIMode /\ ~env_vars.none /\ Missing(env_vars.vars)
    /\ pc = "done" /\ exit_code = 1

\* C9: in CI mode the .env file is never opened, and with fewer than three
\* listed variables set the load fails; outside CI mode os.getenv is asked for
\* nothing but GITHUB_ACTIONS and every key and value of the configuration
\* comes from a line of the .env file.
C9_SourcesExclusive ==
    /\ CIMode => ~file_opened
    /\ (CIMode /\ AfterLoad /\ Cardinality(SetIn(AllListedVars)) < 3) => env_vars.none
    /\ (~CIMode /\ AfterLoad) =>
          /\ getenv_names = {Str("GITHUB_ACTIONS")}
          /\ ~env_vars.none =>
                /\ file_opened
                /\ \A k \in DOMAIN env_vars.vars :
                      \E i \in 1..Len(env_file.lines) :
                         /\ "=" \in Tokens(env_file.lines[i])
                         /\ Tokens(k) \subseteq Tokens(env_file.lines[i])
                         /\ Tokens(env_vars.vars[k]) \subseteq Tokens(env_file.lines[i])

C9_Witness ==
    /\ CIMode /\ env_file.exists /\ pc = "done"
    /\ Cardinality(SetIn(AllListedVars)) < 3 /\ env_vars.none

\* C10: a response with status 200 whose body is no JSON, or JSON that is no
\* object, gives failure: the fault is caught in trigger_scheduled_tasks, which
\* returns False, and the run exits with code 1.
C10_UnusableBodyFails ==
    (AfterTrigger /\ GotResponse /\ response.status = 200
        /\ response.body \in {"non_object", "invalid"}) =>
          /\ ~success
          /\ caught \in {"RequestException", "Exception"}
          /\ pc \in {"finish", "done"} => exit_code = 1
          /\ pc = "done" => termination = "exit"

C10_Witness ==
    pc = "done" /\ response.status = 200 /\ response.body = "non_object" /\ exit_code = 1

====
